---- MODULE Spec2Model ----
(***************************************************************************)
(* Model of src/lex.rs of wirefilter: the lexing primitives expect, span,  *)
(* take_while, take, fixed_byte, hex_byte, oct_byte and the lexers that    *)
(* the lex_enum! macro generates.                                          *)
(*                                                                         *)
(* A &str is a borrowed view of a buffer: it is modelled as a pair of byte *)
(* offsets [lo, hi) into the buffer buf, which holds UTF-8 encoded text as *)
(* a sequence of byte values.  Slicing a &str at an offset that is not a   *)
(* character boundary panics in Rust; a panic is the outcome Panic.        *)
(***************************************************************************)
EXTENDS Integers, Sequences, FiniteSets, TLC

VARIABLES buf, input, call, outcome, last

vars == <<buf, input, call, outcome, last>>

(* ------------------------------ bounds --------------------------------- *)

\* longest buffer, in bytes
MaxLen == 3

\* largest count handed to take
MaxCount == 4

(* --------------------------- text and slices --------------------------- *)

\* Bytes of one-byte (ASCII) characters used in buffers:
\*   43 '+'   49 '1'   55 '7'   61 '='   70 'F'   71 'G'
AsciiBytes == {43, 49, 55, 61, 70, 71}

\* The two-byte character U+00E9 (e with acute): lead byte 195, then 169.
TwoByteChar == <<195, 169>>

RECURSIVE Utf8Strings(_)
\* every valid UTF-8 text of exactly n bytes over the characters above
Utf8Strings(n) ==
    IF n = 0 THEN {<<>>}
    ELSE {<<b>> \o s : b \in AsciiBytes, s \in Utf8Strings(n - 1)}
         \cup (IF n >= 2 THEN {TwoByteChar \o s : s \in Utf8Strings(n - 2)}
                         ELSE {})

Buffers == UNION {Utf8Strings(n) : n \in 0..MaxLen}

\* str::len: the length in bytes
len(s) == s.hi - s.lo

\* the bytes a slice views
Text(s) == SubSeq(buf, s.lo + 1, s.hi)

\* the byte at 0-based index i of a slice
byte_at(s, i) == buf[s.lo + i + 1]

\* str::is_char_boundary: the start, the end, or any byte that is not a
\* UTF-8 continuation byte (128..191)
is_char_boundary(s, i) ==
    IF i = 0 \/ i = len(s) THEN TRUE
    ELSE IF i > len(s) THEN FALSE
    ELSE ~(byte_at(s, i) >= 128 /\ byte_at(s, i) < 192)

(* ------------------------------ outcomes ------------------------------- *)

Ok(v, r) == [tag |-> "Ok", value |-> v, rest |-> r]

Err(k, s) == [tag |-> "Err", kind |-> k, span |-> s]

Panic == [tag |-> "Panic"]

Idle == [tag |-> "Idle"]

ExpectedName(name) == [k |-> "ExpectedName", name |-> name]

ExpectedLiteral(s) == [k |-> "ExpectedLiteral", lit |-> s]

ParseInt(err, radix) == [k |-> "ParseInt", err |-> err, radix |-> radix]

CountMismatch(name, actual, expected) ==
    [k |-> "CountMismatch", name |-> name, actual |-> actual,
     expected |-> expected]

(* ------------------------------- expect -------------------------------- *)

\* str::starts_with(&str): the literal's bytes are a prefix of the input's
starts_with(in, s) ==
    /\ Len(s) <= len(in)
    /\ \A i \in 1..Len(s) : byte_at(in, i - 1) = s[i]

\* &input[from..]: panics unless from is a character boundary of input
slice_from(in, from) ==
    IF is_char_boundary(in, from)
    THEN [lo |-> in.lo + from, hi |-> in.hi]
    ELSE Panic

\* &input[..to]
slice_to(in, to) ==
    IF is_char_boundary(in, to)
    THEN [lo |-> in.lo, hi |-> in.lo + to]
    ELSE Panic

\* expect, dropping one byte instead of the literal's length
expect_one_byte(in, s) ==
    IF starts_with(in, s)
    THEN LET r == slice_from(in, 1)
         IN  IF r = Panic THEN Panic ELSE Ok(<<>>, r)
    ELSE Err(ExpectedLiteral(s), in)

expect(in, s) ==
    IF starts_with(in, s)
    THEN LET r == slice_from(in, Len(s))
         IN  IF r = Panic THEN Panic ELSE Ok(<<>>, r)
    ELSE Err(ExpectedLiteral(s), in)

(* -------------------------------- span --------------------------------- *)

\* span, cutting at the remainder's length instead of the difference
span_rest_len(in, rest) ==
    IF len(rest) > len(in) THEN Panic
    ELSE slice_to(in, len(rest))

\* usize subtraction underflows (a panic) when rest is longer than input
span(in, rest) ==
    IF len(rest) > len(in) THEN Panic
    ELSE slice_to(in, len(in) - len(rest))

(* ----------------------------- take_while ------------------------------ *)

\* Chars::next on a non-empty iterator: decode the first character of the
\* remaining text into its code point and its width in bytes
next_char(iter) ==
    LET x == byte_at(iter, 0)
    IN  IF x < 128 THEN [code |-> x, width |-> 1]
        ELSE [code |-> (x % 32) * 64 + (byte_at(iter, 1) % 64), width |-> 2]

RECURSIVE take_while_empty_ok(_, _, _, _)
\* the take_while loop without its check that something was consumed
take_while_empty_ok(in, name, f, iter) ==
    LET rest == iter
        c == next_char(iter)
    IN  IF len(iter) > 0 /\ c.code \in f
        THEN take_while_empty_ok(in, name, f,
                 [lo |-> iter.lo + c.width, hi |-> iter.hi])
        ELSE LET sp == span(in, rest)
             IN  IF sp = Panic THEN Panic ELSE Ok(sp, rest)

RECURSIVE take_while_loop(_, _, _, _)
\* f is the set of characters (code points) the predicate accepts
take_while_loop(in, name, f, iter) ==
    LET rest == iter
        c == next_char(iter)
    IN  IF len(iter) > 0 /\ c.code \in f
        THEN take_while_loop(in, name, f,
                 [lo |-> iter.lo + c.width, hi |-> iter.hi])
        ELSE IF len(rest) # len(in)
             THEN LET sp == span(in, rest)
                  IN  IF sp = Panic THEN Panic ELSE Ok(sp, rest)
             ELSE Err(ExpectedName(name), in)

take_while(in, name, f) == take_while_loop(in, name, f, in)

(* -------------------------------- take --------------------------------- *)

\* str::split_at: panics unless mid is a character boundary
split_at(in, mid) ==
    IF is_char_boundary(in, mid)
    THEN <<[lo |-> in.lo, hi |-> in.lo + mid],
           [lo |-> in.lo + mid, hi |-> in.hi]>>
    ELSE Panic

\* take, with the two counts of the error exchanged
take_counts_swapped(in, expected) ==
    IF len(in) >= expected
    THEN LET p == split_at(in, expected)
         IN  IF p = Panic THEN Panic ELSE Ok(p[1], p[2])
    ELSE Err(CountMismatch("character", expected, len(in)), in)

take(in, expected) ==
    IF len(in) >= expected
    THEN LET p == split_at(in, expected)
         IN  IF p = Panic THEN Panic ELSE Ok(p[1], p[2])
    ELSE Err(CountMismatch("character", len(in), expected), in)

(* ----------------------------- fixed_byte ------------------------------ *)

\* char::to_digit: the value of a digit character, or -1 for none
to_digit(b, radix) ==
    LET v == IF b >= 48 /\ b <= 57 THEN b - 48
             ELSE IF b >= 65 /\ b <= 90 THEN b - 55
             ELSE IF b >= 97 /\ b <= 122 THEN b - 87
             ELSE radix
    IN  IF v < radix THEN v ELSE -1

RECURSIVE parse_digits(_, _, _, _)
\* the digit loop of u8::from_str_radix: checked_mul, then checked_add
parse_digits(d, i, radix, acc) ==
    IF i > Len(d) THEN [ok |-> TRUE, val |-> acc]
    ELSE LET x == to_digit(d[i], radix)
         IN  IF x < 0 THEN [ok |-> FALSE, err |-> "InvalidDigit"]
             ELSE IF acc * radix > 255 \/ acc * radix + x > 255
                  THEN [ok |-> FALSE, err |-> "PosOverflow"]
                  ELSE parse_digits(d, i + 1, radix, acc * radix + x)

\* u8::from_str_radix: an optional leading '+' is accepted, '-' is not
from_str_radix(d, radix) ==
    IF Len(d) = 0 THEN [ok |-> FALSE, err |-> "Empty"]
    ELSE LET digits == IF d[1] = 43 THEN Tail(d) ELSE d
         IN  IF Len(digits) = 0 THEN [ok |-> FALSE, err |-> "Empty"]
             ELSE parse_digits(digits, 1, radix, 0)

fixed_byte(in, digits, radix) ==
    LET t == take(in, digits)
    IN  IF t.tag # "Ok" THEN t
        ELSE LET r == from_str_radix(Text(t.value), radix)
             IN  IF r.ok THEN Ok(r.val, t.rest)
                 ELSE Err(ParseInt(r.err, radix), t.value)

hex_byte(in) == fixed_byte(in, 2, 16)

oct_byte(in) == fixed_byte(in, 3, 8)

(* ------------------------ lex_enum! generated lexers ------------------- *)

\* an entry  "a" | "b" => Item  of a lex_enum! declaration
LitEntry(lits, item) == [kind |-> "lit", lits |-> lits, item |-> item]

\* an entry  Type => Item  of a lex_enum! declaration
TyEntry(ty, item) == [kind |-> "ty", ty |-> ty, item |-> item]

\* The lex_enum! declarations of the model, by enumeration name.  A nested
\* type is itself a lex_enum! enumeration declared here.
\*   Op    { "=" => Eq, "==" => EqEq }          shorter literal first
\*   OpL   { "==" => EqEq, "=" => Eq }          longer literal first
\*   Digit { "1" | "7" => Low, "F" => High }    alternatives of one item
\*   Term  { OpL => Cmp, Digit => Num, "=1" => Assign }
\*   Expr  { "+" => Plus, Op => Cmp, Digit => Num }
\*   Opt   { "=" => Eq, "" => Nothing }         an empty literal
EnumDecls ==
    [name \in {"Op", "OpL", "Digit", "Term", "Expr", "Opt"} |->
        CASE name = "Op" ->
               <<LitEntry(<< <<61>> >>, "Eq"),
                 LitEntry(<< <<61, 61>> >>, "EqEq")>>
          [] name = "OpL" ->
               <<LitEntry(<< <<61, 61>> >>, "EqEq"),
                 LitEntry(<< <<61>> >>, "Eq")>>
          [] name = "Digit" ->
               <<LitEntry(<< <<49>>, <<55>> >>, "Low"),
                 LitEntry(<< <<70>> >>, "High")>>
          [] name = "Term" ->
               <<TyEntry("OpL", "Cmp"), TyEntry("Digit", "Num"),
                 LitEntry(<< <<61, 49>> >>, "Assign")>>
          [] name = "Expr" ->
               <<LitEntry(<< <<43>> >>, "Plus"), TyEntry("Op", "Cmp"),
                 TyEntry("Digit", "Num")>>
          [] name = "Opt" ->
               <<LitEntry(<< <<61>> >>, "Eq"),
                 LitEntry(<< <<>> >>, "Nothing")>>]

EnumNames == DOMAIN EnumDecls

\* an entry that did not match: control falls through to the next statement
NoMatch == [tag |-> "NoMatch"]

RECURSIVE lex(_, _)

\* the literal arm returning the input it was given, not the remainder
literal_arm_keeps_input(in, item, s) ==
    LET r == expect(in, s)
    IN  IF r.tag = "Ok" THEN Ok([item |-> item], in)
        ELSE IF r.tag = "Panic" THEN Panic
        ELSE NoMatch

\* if let Ok(input) = expect(input, s) { return Ok((Name::Item, input)); }
literal_arm(in, item, s) ==
    LET r == expect(in, s)
    IN  IF r.tag = "Ok" THEN Ok([item |-> item], r.rest)
        ELSE IF r.tag = "Panic" THEN Panic
        ELSE NoMatch

RECURSIVE literal_arms(_, _, _, _)
\* the arms of one entry's literals, in the order written
literal_arms(in, item, lits, j) ==
    IF j > Len(lits) THEN NoMatch
    ELSE LET r == literal_arm(in, item, lits[j])
         IN  IF r.tag = "NoMatch" THEN literal_arms(in, item, lits, j + 1)
             ELSE r

\* the nested type's failure returned as it is, as Lex::lex(input)? would
type_arm_propagates(in, item, ty) ==
    LET r == lex(ty, in)
    IN  IF r.tag = "Ok" THEN Ok([item |-> item, res |-> r.value], r.rest)
        ELSE r

\* if let Ok((res, input)) = Lex::lex(input) { return Ok((Name::Item(res), input)); }
type_arm(in, item, ty) ==
    LET r == lex(ty, in)
    IN  IF r.tag = "Ok" THEN Ok([item |-> item, res |-> r.value], r.rest)
        ELSE IF r.tag = "Panic" THEN Panic
        ELSE NoMatch

entry_arm(in, e) ==
    IF e.kind = "ty" THEN type_arm(in, e.item, e.ty)
    ELSE literal_arms(in, e.item, e.lits, 1)

\* the trailing error placed at the whole buffer, not at the input given
no_match_whole_buffer(name, in) ==
    Err(ExpectedName(name), [lo |-> 0, hi |-> Len(buf)])

\* the trailing Err((ExpectedName(stringify!(Name)), input))
no_match(name, in) == Err(ExpectedName(name), in)

RECURSIVE lex_from(_, _, _)
\* the statements generated for entries i.. of the declaration, then the
\* trailing error
lex_from(name, in, i) ==
    IF i > Len(EnumDecls[name]) THEN no_match(name, in)
    ELSE LET r == entry_arm(in, EnumDecls[name][i])
         IN  IF r.tag = "NoMatch" THEN lex_from(name, in, i + 1) ELSE r

RECURSIVE lex_from_last(_, _, _)
\* the entries tried from the last one back to the first
lex_from_last(name, in, i) ==
    IF i < 1 THEN no_match(name, in)
    ELSE LET r == entry_arm(in, EnumDecls[name][i])
         IN  IF r.tag = "NoMatch" THEN lex_from_last(name, in, i - 1) ELSE r

\* lex, with the entries in the reverse of their declaration order
lex_reversed(name, in) == lex_from_last(name, in, Len(EnumDecls[name]))

lex(name, in) == lex_from(name, in, 1)

(* ---------------------------- the callers ------------------------------ *)

\* literals handed to expect
Literals == {<<>>, <<61>>, <<61, 61>>, <<49, 70>>, <<70>>, <<195, 169>>}

\* predicates handed to take_while, each as the set of characters it
\* accepts, with the name it is called under
Preds ==
    {[name |-> "digit", f |-> {49, 55, 70}],
     [name |-> "word", f |-> {70, 71, 233}],
     [name |-> "sign", f |-> {43, 61}],
     [name |-> "nothing", f |-> {}]}

NoCall == [op |-> "none"]

Run(c, in) ==
    CASE c.op = "expect" -> expect(in, c.s)
      [] c.op = "take" -> take(in, c.expected)
      [] c.op = "take_while" -> take_while(in, c.name, c.f)
      [] c.op = "hex_byte" -> hex_byte(in)
      [] c.op = "oct_byte" -> oct_byte(in)
      [] c.op = "lex" -> lex(c.name, in)

Init ==
    /\ buf \in Buffers
    /\ input = [lo |-> 0, hi |-> Len(buf)]
    /\ call = NoCall
    /\ outcome = Idle
    /\ last = Idle

\* A caller that holds no result applies one of the lexing functions to the
\* current input.  A panic ends the program: nothing is called after it.
CallExpect ==
    \E s \in Literals :
        /\ outcome.tag = "Idle"
        /\ call' = [op |-> "expect", s |-> s]
        /\ outcome' = expect(input, s)
        /\ last' = Idle
        /\ UNCHANGED <<buf, input>>

CallTake ==
    \E n \in 0..MaxCount :
        /\ outcome.tag = "Idle"
        /\ call' = [op |-> "take", expected |-> n]
        /\ outcome' = take(input, n)
        /\ last' = Idle
        /\ UNCHANGED <<buf, input>>

CallTakeWhile ==
    \E p \in Preds :
        /\ outcome.tag = "Idle"
        /\ call' = [op |-> "take_while", name |-> p.name, f |-> p.f]
        /\ outcome' = take_while(input, p.name, p.f)
        /\ last' = Idle
        /\ UNCHANGED <<buf, input>>

CallHexByte ==
    /\ outcome.tag = "Idle"
    /\ call' = [op |-> "hex_byte"]
    /\ outcome' = hex_byte(input)
    /\ last' = Idle
    /\ UNCHANGED <<buf, input>>

CallOctByte ==
    /\ outcome.tag = "Idle"
    /\ call' = [op |-> "oct_byte"]
    /\ outcome' = oct_byte(input)
    /\ last' = Idle
    /\ UNCHANGED <<buf, input>>

CallLex ==
    \E name \in EnumNames :
        /\ outcome.tag = "Idle"
        /\ call' = [op |-> "lex", name |-> name]
        /\ outcome' = lex(name, input)
        /\ last' = Idle
        /\ UNCHANGED <<buf, input>>

\* the caller goes on lexing at the remainder a successful call returned
Continue ==
    /\ outcome.tag = "Ok"
    /\ input' = outcome.rest
    /\ call' = NoCall
    /\ outcome' = Idle
    /\ last' = Idle
    /\ UNCHANGED buf

\* the caller drops a failure and is back at the same input, free to try
\* another lexer on it
Backtrack ==
    /\ outcome.tag = "Err"
    /\ call' = NoCall
    /\ outcome' = Idle
    /\ last' = Idle
    /\ UNCHANGED <<buf, input>>

\* the caller repeats the call it just made, on the same input
Rerun ==
    /\ outcome.tag \in {"Ok", "Err"}
    /\ last' = outcome
    /\ outcome' = Run(call, input)
    /\ UNCHANGED <<buf, input, call>>

Next ==
    \/ CallExpect
    \/ CallTake
    \/ CallTakeWhile
    \/ CallHexByte
    \/ CallOctByte
    \/ CallLex
    \/ Continue
    \/ Backtrack
    \/ Rerun

Spec == Init /\ [][Next]_vars

TypeOK ==
    /\ buf \in Buffers
    /\ input.lo \in 0..Len(buf) /\ input.hi = Len(buf)
    /\ outcome.tag \in {"Idle", "Ok", "Err", "Panic"}

(* ======================= properties of the lexers ====================== *)

\* s is a prefix of t, as sequences of bytes
IsPrefix(s, t) == Len(s) <= Len(t) /\ SubSeq(t, 1, Len(s)) = s

\* the slice of in from byte offset a up to byte offset b
Sub(in, a, b) == [lo |-> in.lo + a, hi |-> in.lo + b]

\* s views a contiguous part of in
SubSlice(s, in) == in.lo <= s.lo /\ s.lo <= s.hi /\ s.hi <= in.hi

\* s is a suffix of in: it ends where in ends
Suffix(s, in) == SubSlice(s, in) /\ s.hi = in.hi

(* ------------------------------- expect -------------------------------- *)

\* C3: expect(I, L) succeeds iff I starts with L; on success it returns I
\* without its first len(L) bytes, and otherwise it fails with
\* ExpectedLiteral(L) and a failing span that is exactly I.
C3_ExpectContract ==
    call.op = "expect" =>
        IF IsPrefix(call.s, Text(input))
        THEN /\ outcome.tag = "Ok"
             /\ outcome.rest = Sub(input, Len(call.s), len(input))
             /\ call.s \o Text(outcome.rest) = Text(input)
        ELSE outcome = Err(ExpectedLiteral(call.s), input)

\* expect has removed a two-byte literal and text is left over
C3_Witness ==
    /\ call.op = "expect"
    /\ outcome.tag = "Ok"
    /\ Len(call.s) = 2
    /\ len(outcome.rest) > 0

(* -------------------------------- take --------------------------------- *)

\* C4: whenever len(I) >= n, take(I, n) succeeds and returns
\* (I[0..n], I[n..]), also when byte offset n falls inside a multi-byte
\* character.
C4_TakeSplitsAnywhere ==
    (call.op = "take" /\ len(input) >= call.expected) =>
        outcome = Ok(Sub(input, 0, call.expected),
                     Sub(input, call.expected, len(input)))

\* C5: whenever len(I) < n, take(I, n) fails with
\* CountMismatch{name: "character", actual: len(I), expected: n} and a
\* failing span that is exactly I.
C5_TakeTooShort ==
    (call.op = "take" /\ Len(Text(input)) < call.expected) =>
        outcome = Err([k |-> "CountMismatch", name |-> "character",
                       actual |-> Len(Text(input)),
                       expected |-> call.expected], input)

\* take has failed on a non-empty remainder that is too short
C5_Witness ==
    /\ call.op = "take"
    /\ outcome.tag = "Err"
    /\ input.lo > 0
    /\ len(input) > 0

(* ----------------------------- take_while ------------------------------ *)

\* the offsets of in at which a character starts
CharStarts(in) ==
    {i \in 0..(len(in) - 1) : byte_at(in, i) < 128 \/ byte_at(in, i) >= 192}

\* the character that starts at offset i of in
CharAt(in, i) ==
    IF byte_at(in, i) < 128 THEN byte_at(in, i)
    ELSE (byte_at(in, i) - 192) * 64 + (byte_at(in, i + 1) - 128)

\* the ends of the prefixes of in that consist of whole characters, all
\* of them accepted by f
AcceptedPrefixEnds(in, f) ==
    {e \in CharStarts(in) \cup {len(in)} :
        \A i \in CharStarts(in) : i < e => CharAt(in, i) \in f}

\* the length in bytes of the longest such prefix
LongestAccepted(in, f) ==
    CHOOSE e \in AcceptedPrefixEnds(in, f) :
        \A d \in AcceptedPrefixEnds(in, f) : d <= e

\* C6: with p the longest prefix of I whose characters all satisfy P,
\* take_while(I, name, P) returns p and I without p when p is not empty,
\* and fails with ExpectedName(name) and failing span exactly I when it is.
C6_TakeWhileLongestPrefix ==
    call.op = "take_while" =>
        LET p == LongestAccepted(input, call.f)
        IN  IF p > 0
            THEN outcome = Ok(Sub(input, 0, p), Sub(input, p, len(input)))
            ELSE outcome = Err(ExpectedName(call.name), input)

\* take_while has consumed a prefix holding a two-byte character and has
\* stopped before the end of the input
C6_Witness ==
    /\ call.op = "take_while"
    /\ outcome.tag = "Ok"
    /\ \E i \in 1..Len(Text(outcome.value)) : Text(outcome.value)[i] = 195
    /\ len(outcome.rest) > 0

(* ------------------------ hex_byte and oct_byte ------------------------ *)

\* the digits and the radix of the call: hex_byte (2, 16), oct_byte (3, 8)
WidthOf(c) == IF c.op = "hex_byte" THEN 2 ELSE 3

RadixOf(c) == IF c.op = "hex_byte" THEN 16 ELSE 8

RECURSIVE ValueOf(_, _)
\* the number a sequence of digit bytes denotes in the given radix
ValueOf(d, radix) ==
    IF d = <<>> THEN 0
    ELSE ValueOf(SubSeq(d, 1, Len(d) - 1), radix) * radix
         + to_digit(d[Len(d)], radix)

\* C7: on an input shorter than k digits the call fails with
\* CountMismatch{"character", len(input), k} at the whole input; otherwise
\* it succeeds with (v, input[k..]) when the first k bytes are digits of a
\* value v <= 255, and in every other case it fails with ParseInt{radix} at
\* exactly the digit window input[0..k].
C7_FixedByteContract ==
    call.op \in {"hex_byte", "oct_byte"} =>
        LET k == WidthOf(call)
            radix == RadixOf(call)
            I == Text(input)
            window == SubSeq(I, 1, k)
        IN  IF Len(I) < k
            THEN outcome = Err(CountMismatch("character", Len(I), k), input)
            ELSE IF /\ \A i \in 1..k : to_digit(window[i], radix) >= 0
                    /\ ValueOf(window, radix) <= 255
                 THEN outcome = Ok(ValueOf(window, radix),
                                   Sub(input, k, len(input)))
                 ELSE /\ outcome.tag = "Err"
                      /\ outcome.kind.k = "ParseInt"
                      /\ outcome.kind.radix = radix
                      /\ outcome.span = Sub(input, 0, k)

(* ------------------------ lex_enum! generated lexers ------------------- *)

\* the arms of a declaration: <<i, j>> is literal j of entry i, or the
\* nested type of entry i when j = 1
Arms(name) ==
    {a \in (1..Len(EnumDecls[name])) \X (1..2) :
        LET e == EnumDecls[name][a[1]]
        IN  a[2] <= (IF e.kind = "lit" THEN Len(e.lits) ELSE 1)}

\* arm a is written before arm b
Before(a, b) == a[1] < b[1] \/ (a[1] = b[1] /\ a[2] < b[2])

\* the matcher of arm a succeeds on in
Succeeds(name, a, in) ==
    LET e == EnumDecls[name][a[1]]
    IN  IF e.kind = "lit" THEN IsPrefix(e.lits[a[2]], Text(in))
        ELSE lex(e.ty, in).tag = "Ok"

\* the variant of arm a with the remainder its matcher leaves of in
ArmResult(name, a, in) ==
    LET e == EnumDecls[name][a[1]]
    IN  IF e.kind = "lit"
        THEN Ok([item |-> e.item], Sub(in, Len(e.lits[a[2]]), len(in)))
        ELSE Ok([item |-> e.item, res |-> lex(e.ty, in).value],
                lex(e.ty, in).rest)

\* C1: lex returns the variant of the first arm, in declaration order,
\* whose matcher succeeds on the original input, with that matcher's
\* remainder; there is no longest match: with "=" declared before "==",
\* the input "==1" yields Eq and the remainder "=1".
C1_FirstMatchWins ==
    call.op = "lex" =>
        /\ \A a \in Arms(call.name) :
             (/\ Succeeds(call.name, a, input)
              /\ \A b \in Arms(call.name) :
                    Before(b, a) => ~Succeeds(call.name, b, input))
             => outcome = ArmResult(call.name, a, input)
        /\ (call.name = "Op" /\ Text(input) = <<61, 61, 49>>) =>
             /\ outcome.tag = "Ok"
             /\ outcome.value = [item |-> "Eq"]
             /\ Text(outcome.rest) = <<61, 49>>

\* Op { "=" => Eq, "==" => EqEq } has lexed "==1"
C1_Witness ==
    /\ call = [op |-> "lex", name |-> "Op"]
    /\ Text(input) = <<61, 61, 49>>
    /\ outcome.tag = "Ok"

\* a nested type's variant was returned after an earlier entry failed
C1_WitnessNested ==
    /\ call = [op |-> "lex", name |-> "Term"]
    /\ outcome.tag = "Ok"
    /\ outcome.value = [item |-> "Num", res |-> [item |-> "High"]]

\* C2: when no entry succeeds, lex fails with ExpectedName(<the
\* enumeration's own name>) at the whole original input; no other error,
\* such as a nested type's own, is ever returned.
C2_NoMatchError ==
    call.op = "lex" =>
        /\ (\A a \in Arms(call.name) : ~Succeeds(call.name, a, input))
             => outcome = Err(ExpectedName(call.name), input)
        /\ outcome.tag = "Err"
             => outcome = Err([k |-> "ExpectedName", name |-> call.name],
                              input)

\* an enumeration with nested types has failed on a non-empty remainder
C2_Witness ==
    /\ call = [op |-> "lex", name |-> "Term"]
    /\ outcome.tag = "Err"
    /\ input.lo > 0
    /\ len(input) > 0

(* -------------------------- every combinator --------------------------- *)

\* C8, as stated: whatever the literal or the count, a successful call
\* leaves a remainder strictly shorter than its input.
C8_AlwaysConsumes ==
    outcome.tag = "Ok" => len(outcome.rest) < len(input)

RECURSIVE NoEmptyLiteral(_)
\* no literal of the declaration, or of a type nested in it, is empty
NoEmptyLiteral(name) ==
    \A i \in 1..Len(EnumDecls[name]) :
        LET e == EnumDecls[name][i]
        IN  IF e.kind = "lit"
            THEN \A j \in 1..Len(e.lits) : e.lits[j] # <<>>
            ELSE NoEmptyLiteral(e.ty)

\* the call is one that has to consume: a non-empty literal, a count of
\* at least one, a declaration without an empty literal
Consuming(c) ==
    CASE c.op = "expect" -> c.s # <<>>
      [] c.op = "take" -> c.expected >= 1
      [] c.op = "lex" -> NoEmptyLiteral(c.name)
      [] OTHER -> TRUE

\* C8, amended: a successful call of take_while, hex_byte or oct_byte, of
\* expect with a non-empty literal, of take with a count of at least one,
\* or of a generated lexer none of whose literals is empty, leaves a
\* remainder strictly shorter than its input.
C8_ConsumesUnlessEmpty ==
    (outcome.tag = "Ok" /\ Consuming(call)) =>
        len(outcome.rest) < len(input)

\* a generated lexer with nested types has succeeded on a remainder
C8_Witness ==
    /\ call = [op |-> "lex", name |-> "Expr"]
    /\ outcome.tag = "Ok"
    /\ input.lo > 0
    /\ len(outcome.rest) < len(input)

RECURSIVE LiteralsOf(_)
\* the literals of a declaration and of the types nested in it
LiteralsOf(name) ==
    UNION {LET e == EnumDecls[name][i]
           IN  IF e.kind = "lit" THEN {e.lits[j] : j \in 1..Len(e.lits)}
               ELSE LiteralsOf(e.ty) : i \in 1..Len(EnumDecls[name])}

\* the text span(input, rest) views is the text the call matched
MatchedBy(c, sp) ==
    CASE c.op = "expect" -> Text(sp) = c.s
      [] c.op = "take" -> sp = outcome.value /\ len(sp) = c.expected
      [] c.op = "take_while" ->
            /\ sp = outcome.value
            /\ \A i \in CharStarts(sp) : CharAt(sp, i) \in c.f
      [] c.op \in {"hex_byte", "oct_byte"} -> len(sp) = WidthOf(c)
      [] c.op = "lex" -> Text(sp) \in LiteralsOf(c.name)

\* C9: after a successful call the remainder is a suffix of the input,
\* span(input, remainder) followed by the remainder is the input, and
\* span(input, remainder) is the text that was matched (for take and
\* take_while, the consumed slice that was returned).
C9_SpanRoundTrip ==
    outcome.tag = "Ok" =>
        /\ Suffix(outcome.rest, input)
        /\ span(input, outcome.rest) # Panic
        /\ Text(span(input, outcome.rest)) \o Text(outcome.rest) = Text(input)
        /\ MatchedBy(call, span(input, outcome.rest))

\* take_while has matched the middle of the buffer: its input is a
\* remainder and it leaves a remainder
C9_Witness ==
    /\ call.op = "take_while"
    /\ outcome.tag = "Ok"
    /\ input.lo > 0
    /\ len(outcome.rest) > 0

C10_WitnessRemainder ==
    /\ outcome.tag = "Err"
    /\ last = outcome
    /\ call.op = "lex"
    /\ input.lo > 0

====
